---------------------------- MODULE Spec2Model ----------------------------
(***************************************************************************)
(* Face-tracking actuation pipeline.                                       *)
(*                                                                         *)
(*   esp8266/main.py             Servo, Scanner, on_message, run           *)
(*   esp8266/config.py           the servo and scan constants              *)
(*   pc_vision/movement_detector.py   MovementDetector.compute             *)
(*                                                                         *)
(* Three specifications share the variables:                               *)
(*   Spec          run() of esp8266/main.py, statement by statement        *)
(*   ServoSpec     the Servo and Scanner methods called in any order       *)
(*   DetectorSpec  successive MovementDetector.compute calls               *)
(*                                                                         *)
(* Numbers.  Offsets received by the controller are counted in units of    *)
(* 1/OffsetScale.  Times of the controller are milliseconds; the scanner   *)
(* only ever reads ticks_diff(now, _last_tick), which the model keeps as   *)
(* since_tick, saturated at SCAN_DELAY_MS (every larger value takes the    *)
(* same branch of Scanner.tick).  The detector's geometry is in pixels and *)
(* its ratios in hundredths; its clock counts abstract time units.         *)
(***************************************************************************)
EXTENDS Integers, Sequences, FiniteSets, TLC

VARIABLES
    \* ---- esp8266/main.py
    pc,           \* position of run()
    angle,        \* Servo._angle
    duty,         \* the duty last written to the PWM
    active,       \* Scanner._active
    direction,    \* Scanner._direction
    since_tick,   \* ticks_diff(ticks_ms(), Scanner._last_tick), saturated
    sock,         \* the socket of the current MQTTClient: none / open / closed
    cur,          \* the message check_msg delivered in this loop iteration
    interrupted,  \* KeyboardInterrupt has been raised
    exit,         \* how run() ended
    \* ---- history of the controller (read by the properties only)
    iter_angle,   \* angle when the current loop iteration began
    iter_active,  \* Scanner._active when the current loop iteration began
    last_cmd,     \* status of the last handled message that was a known command
    delay_s,      \* seconds slept since the last connect attempt
    call,         \* ServoSpec: the method called last
    \* ---- pc_vision/movement_detector.py
    now,                 \* time.time() as read by the last compute
    prev_state,          \* MovementDetector._prev_state
    last_publish_time,   \* MovementDetector._last_publish_time
    out,                 \* what the last compute returned: {} or {event}
    \* ---- history of the detector
    movement,     \* the movement the last compute classified
    obs,          \* the observation the last compute was given
    pre,          \* _prev_state and _last_publish_time before the last compute
    prior,        \* the compute before the last: its time, movement, and
                  \* whether it returned an event
    band,         \* the run of observations inside the hysteresis band that
                  \* the last compute continued: their sign, _prev_state
                  \* before the run, and its length (1, or 2 for more)
    alt           \* a detector that takes every classified movement as the
                  \* baseline of the next threshold, run beside the real one

espVars == <<pc, angle, duty, active, direction, since_tick, sock, cur,
             interrupted, exit, iter_angle, iter_active, last_cmd, delay_s,
             call>>
detVars == <<now, prev_state, last_publish_time, out, movement, obs, pre,
             prior, band, alt>>
vars == <<espVars, detVars>>

Max(a, b) == IF a >= b THEN a ELSE b
Min(a, b) == IF a <= b THEN a ELSE b
Abs(x) == IF x < 0 THEN -x ELSE x

(***************************************************************************)
(* esp8266/config.py                                                       *)
(***************************************************************************)
SERVO_MIN_ANGLE == 0
SERVO_MAX_ANGLE == 180
SERVO_CENTER == 90
SERVO_STEP_MIN == 1
SERVO_STEP_MAX == 8
SCAN_STEP == 2
SCAN_DELAY_MS == 100
DUTY_MIN == 40
DUTY_MAX == 115

\* main.py:221 time.sleep_ms(50), :213 time.sleep(5), :231 time.sleep(3)
LOOP_SLEEP_MS == 50
RETRY_DELAY_S == 5
RECONNECT_DELAY_S == 3

(***************************************************************************)
(* Bounds of the model                                                     *)
(***************************************************************************)
\* offsets of inbound messages: -MaxOffset..MaxOffset, in units of 1/OffsetScale
OffsetScale == 10
MaxOffset == 5
\* a loop iteration lasts LOOP_SLEEP_MS plus up to MaxLag further sleep periods
MaxLag == 1
\* set_angle is called with arguments this far outside the mechanical range
MaxOvershoot == 3
\* StepSpec: offsets 0..MaxFine in units of 1/FineScale
FineScale == 100
MaxFine == 60

(***************************************************************************)
(* Servo                                                                   *)
(***************************************************************************)
ClampNone(a) == a

\* main.py:58, :64   max(SERVO_MIN_ANGLE, min(SERVO_MAX_ANGLE, angle))
Clamp(a) == Max(SERVO_MIN_ANGLE, Min(SERVO_MAX_ANGLE, a))

\* Servo.angle_to_duty: int(duty_min + (duty_max - duty_min) * angle / 180).
\* The operands are non-negative, so int() is the floor.
angle_to_duty(a) == DUTY_MIN + ((DUTY_MAX - DUTY_MIN) * Clamp(a)) \div 180

\* Servo.set_angle
set_angle(a) ==
    /\ angle' = Clamp(a)
    /\ duty' = angle_to_duty(Clamp(a))

\* t = min(offset_abs / 0.5, 1.0): the offset normalised by its largest value
StepAtHalf(k, scale) ==
    SERVO_STEP_MIN
      + ((SERVO_STEP_MAX - SERVO_STEP_MIN) * Min(10 * k, 5 * scale))
          \div (5 * scale)

\* main.py:79-81.  offset_abs = k / scale, so
\* t = min(offset_abs / 0.4, 1.0) = min(10 k, 4 scale) / (4 scale)
\* and step = int(STEP_MIN + (STEP_MAX - STEP_MIN) * t); the operands are
\* non-negative, so int() is the floor.
StepAt(k, scale) ==
    SERVO_STEP_MIN
      + ((SERVO_STEP_MAX - SERVO_STEP_MIN) * Min(10 * k, 4 * scale))
          \div (4 * scale)

ProportionalStepMax(k) == SERVO_STEP_MAX

\* the step for an offset of inbound messages, k / OffsetScale
ProportionalStep(k) == StepAt(k, OffsetScale)

\* Servo.move_proportional
move_proportional(d, k) == set_angle(angle + d * ProportionalStep(k))

\* Servo.move_proportional for an offset_abs of k / FineScale
move_fine(d, k) == set_angle(angle + d * StepAt(k, FineScale))

\* Servo.center
center == set_angle(SERVO_CENTER)

\* Servo.stop: pwm.duty(0); _angle is not touched
servo_stop == duty' = 0 /\ angle' = angle

(***************************************************************************)
(* Scanner                                                                 *)
(***************************************************************************)
\* the tick time recorded on every call
scanner_start_always == active' = TRUE /\ since_tick' = 0

\* Scanner.start
scanner_start ==
    IF ~active
    THEN active' = TRUE /\ since_tick' = 0
    ELSE active' = active /\ since_tick' = since_tick

scanner_stop_skipped == active' = active

\* Scanner.stop
scanner_stop == active' = FALSE

\* the sweep never reversed
ScanDirectionKept(a, d) == d

\* the sweep reversed only at the limits themselves
ScanDirectionAtLimit(a, d) ==
    IF a >= SERVO_MAX_ANGLE THEN -1
    ELSE IF a <= SERVO_MIN_ANGLE THEN 1
    ELSE d

\* main.py:125-128, the direction the tick moves in
ScanDirection(a, d) ==
    IF a >= SERVO_MAX_ANGLE - SCAN_STEP THEN -1
    ELSE IF a <= SERVO_MIN_ANGLE + SCAN_STEP THEN 1
    ELSE d

\* main.py:116-120, whether the tick does anything
TickDue == active /\ since_tick >= SCAN_DELAY_MS

\* Scanner.tick
scanner_tick ==
    IF TickDue
    THEN /\ since_tick' = 0
         /\ direction' = ScanDirection(angle, direction)
         /\ set_angle(angle + ScanDirection(angle, direction) * SCAN_STEP)
         /\ active' = active
    ELSE UNCHANGED <<since_tick, direction, angle, duty, active>>

\* the clock after ms more milliseconds, as the scanner sees it
Elapse(ms) == Min(since_tick + ms, SCAN_DELAY_MS)

(***************************************************************************)
(* Inbound payloads.  json.loads either raises ValueError ("invalid"),     *)
(* returns something that is no dict ("array": a list, a number, a string, *)
(* null) or returns a dict, here a function on the keys present.           *)
(***************************************************************************)
Num(k) == [t |-> "num", v |-> k]
NullValue == [t |-> "null", v |-> 0]
TextValue == [t |-> "str", v |-> 0]

Commands == {"MOVE_LEFT", "MOVE_RIGHT", "CENTERED", "NO_FACE"}
StatusValues == Commands \cup {"HELLO"}
OffsetValues == {Num(k) : k \in -MaxOffset..MaxOffset} \cup {NullValue, TextValue}

Objects ==
    {[k \in {"status", "offset"} |-> IF k = "status" THEN s ELSE o] :
        s \in StatusValues, o \in OffsetValues}
    \cup {[k \in {"status"} |-> s] : s \in StatusValues}
    \cup {[k \in {"offset"} |-> o] : o \in OffsetValues}
    \cup {[k \in {} |-> 0]}

NoMsg == [json |-> "none", obj |-> << >>]
Messages ==
    {[json |-> "invalid", obj |-> << >>], [json |-> "array", obj |-> << >>]}
    \cup {[json |-> "object", obj |-> o] : o \in Objects}

\* dict.get(key, default)
Get(o, key, default) == IF key \in DOMAIN o THEN o[key] ELSE default

\* main.py:159-160
StatusOf(m) == Get(m.obj, "status", "")
OffsetOf(m) == Get(m.obj, "offset", Num(0))

LoopPcs == {"check_msg", "move", "tick", "sleep"}

(***************************************************************************)
(* Initial state: the module body of main.py up to the call of run()       *)
(***************************************************************************)
InitEsp ==
    /\ pc = "connect"
    /\ angle = Clamp(SERVO_CENTER)
    /\ duty = angle_to_duty(SERVO_CENTER)
    /\ active = FALSE
    /\ direction = 1
    /\ since_tick = SCAN_DELAY_MS
    /\ sock = "none"
    /\ cur = NoMsg
    /\ interrupted = FALSE
    /\ exit = "running"
    /\ iter_angle = Clamp(SERVO_CENTER)
    /\ iter_active = FALSE
    /\ last_cmd = "None"
    /\ delay_s = 0
    /\ call = <<"init", 0>>


(***************************************************************************)
(* run(): connect with retry, main.py:195-214                              *)
(***************************************************************************)
\* a connect that sets the scanner up anew
ConnectOkResetsScanner ==
    /\ pc = "connect"
    /\ pc' = "check_msg"
    /\ sock' = "open"
    /\ delay_s' = 0
    /\ iter_angle' = angle
    /\ iter_active' = FALSE
    /\ active' = FALSE
    /\ direction' = 1
    /\ \E lag \in 0..MaxLag : since_tick' = Elapse(lag * LOOP_SLEEP_MS)
    /\ UNCHANGED <<angle, duty, cur, interrupted, exit, last_cmd, call>>
    /\ UNCHANGED detVars

\* A fresh MQTTClient, connect() and subscribe() both succeed.
ConnectOk ==
    /\ pc = "connect"
    /\ pc' = "check_msg"
    /\ sock' = "open"
    /\ delay_s' = 0
    /\ iter_angle' = angle
    /\ iter_active' = active
    /\ \E lag \in 0..MaxLag : since_tick' = Elapse(lag * LOOP_SLEEP_MS)
    /\ UNCHANGED <<angle, duty, active, direction, cur, interrupted, exit,
                   last_cmd, call>>
    /\ UNCHANGED detVars

\* where run() goes when connect() or subscribe() raises an Exception
AfterConnectFailureFatal == "done"

AfterConnectFailure == "retry_sleep"

\* connect() raises (no socket), or subscribe() raises (the socket stays open).
ConnectFail ==
    /\ pc = "connect"
    /\ pc' = AfterConnectFailure
    /\ exit' = IF pc' = "done" THEN "Exception" ELSE exit
    /\ sock' \in {"none", "open"}
    /\ delay_s' = 0
    /\ \E lag \in 0..MaxLag : since_tick' = Elapse(lag * LOOP_SLEEP_MS)
    /\ UNCHANGED <<angle, duty, active, direction, cur, interrupted,
                   iter_angle, iter_active, last_cmd, call>>
    /\ UNCHANGED detVars

\* main.py:213, the argument of time.sleep
RetryDelay == RETRY_DELAY_S

\* time.sleep(5); continue
RetrySleep ==
    /\ pc = "retry_sleep"
    /\ pc' = "connect"
    /\ delay_s' = RetryDelay
    /\ since_tick' = Elapse(RetryDelay * 1000)
    /\ UNCHANGED <<angle, duty, active, direction, sock, cur, interrupted,
                   exit, iter_angle, iter_active, last_cmd, call>>
    /\ UNCHANGED detVars

(***************************************************************************)
(* run(): the message loop, main.py:217-221, and on_message                *)
(***************************************************************************)
\* check_msg() finds nothing to read.
CheckMsgNone ==
    /\ pc = "check_msg"
    /\ pc' = "tick"
    /\ cur' = NoMsg
    /\ UNCHANGED <<angle, duty, active, direction, since_tick, sock,
                   interrupted, exit, iter_angle, iter_active, last_cmd, delay_s, call>>
    /\ UNCHANGED detVars

\* check_msg() raises OSError: except Exception, main.py:228.
CheckMsgError ==
    /\ pc = "check_msg"
    /\ pc' = "reconnect_sleep"
    /\ cur' = NoMsg
    /\ UNCHANGED <<angle, duty, active, direction, since_tick, sock,
                   interrupted, exit, iter_angle, iter_active, last_cmd, delay_s, call>>
    /\ UNCHANGED detVars

\* json.loads raises ValueError: caught at main.py:161, on_message returns.
OnBadJson ==
    /\ pc = "check_msg"
    /\ \E m \in Messages : m.json = "invalid" /\ cur' = m
    /\ pc' = "tick"
    /\ UNCHANGED <<angle, duty, active, direction, since_tick, sock,
                   interrupted, exit, iter_angle, iter_active, last_cmd, delay_s, call>>
    /\ UNCHANGED detVars

\* json.loads returns a list, number, string or None: payload.get raises
\* AttributeError, which main.py:161 does not catch; it leaves on_message and
\* check_msg and is caught by except Exception at main.py:228.
OnNonObject ==
    /\ pc = "check_msg"
    /\ \E m \in Messages : m.json = "array" /\ cur' = m
    /\ pc' = "reconnect_sleep"
    /\ UNCHANGED <<angle, duty, active, direction, since_tick, sock,
                   interrupted, exit, iter_angle, iter_active, last_cmd, delay_s, call>>
    /\ UNCHANGED detVars

\* main.py:165-166 and :171-172: the status is MOVE_LEFT or MOVE_RIGHT and
\* scanner.stop() has run; abs(offset) and move_proportional are next.
OnMoveCommand ==
    /\ pc = "check_msg"
    /\ \E m \in Messages :
          /\ m.json = "object"
          /\ StatusOf(m) \in {"MOVE_LEFT", "MOVE_RIGHT"}
          /\ cur' = m
          /\ last_cmd' = StatusOf(m)
    /\ scanner_stop
    /\ pc' = "move"
    /\ UNCHANGED <<angle, duty, direction, since_tick, sock, interrupted,
                   exit, iter_angle, iter_active, delay_s, call>>
    /\ UNCHANGED detVars

\* main.py:167-168 and :173-174 with a numeric offset.
MoveApply ==
    /\ pc = "move"
    /\ OffsetOf(cur).t = "num"
    /\ move_proportional(IF StatusOf(cur) = "MOVE_LEFT" THEN -1 ELSE 1,
                         Abs(OffsetOf(cur).v))
    /\ pc' = "tick"
    /\ UNCHANGED <<active, direction, since_tick, sock, cur, interrupted,
                   exit, iter_angle, iter_active, last_cmd, delay_s, call>>
    /\ UNCHANGED detVars

\* abs(None), abs("x") raise TypeError: not caught in on_message, caught by
\* except Exception at main.py:228.
MoveTypeError ==
    /\ pc = "move"
    /\ OffsetOf(cur).t # "num"
    /\ pc' = "reconnect_sleep"
    /\ UNCHANGED <<angle, duty, active, direction, since_tick, sock, cur,
                   interrupted, exit, iter_angle, iter_active, last_cmd, delay_s, call>>
    /\ UNCHANGED detVars

on_centered_recentre ==
    /\ scanner_stop
    /\ center
    /\ UNCHANGED <<direction, since_tick>>

\* main.py:177-180  scanner.stop(); the servo is held where it is
on_centered ==
    /\ scanner_stop
    /\ UNCHANGED <<angle, duty, direction, since_tick>>

\* main.py:177-180
OnCentered ==
    /\ pc = "check_msg"
    /\ \E m \in Messages :
          m.json = "object" /\ StatusOf(m) = "CENTERED" /\ cur' = m
    /\ on_centered
    /\ last_cmd' = "CENTERED"
    /\ pc' = "tick"
    /\ UNCHANGED <<sock, interrupted, exit, iter_angle, iter_active, delay_s,
                   call>>
    /\ UNCHANGED detVars

\* main.py:182-184
OnNoFace ==
    /\ pc = "check_msg"
    /\ \E m \in Messages :
          m.json = "object" /\ StatusOf(m) = "NO_FACE" /\ cur' = m
    /\ scanner_start
    /\ last_cmd' = "NO_FACE"
    /\ pc' = "tick"
    /\ UNCHANGED <<angle, duty, direction, sock, interrupted, exit,
                   iter_angle, iter_active, delay_s, call>>
    /\ UNCHANGED detVars

on_unknown_as_no_face ==
    /\ scanner_start
    /\ UNCHANGED <<angle, duty, direction>>

\* main.py:186-187  print("[MQTT] Unknown status:", status), nothing else
on_unknown == UNCHANGED <<angle, duty, active, direction, since_tick>>

\* main.py:186-187
OnUnknown ==
    /\ pc = "check_msg"
    /\ \E m \in Messages :
          m.json = "object" /\ StatusOf(m) \notin Commands /\ cur' = m
    /\ on_unknown
    /\ pc' = "tick"
    /\ UNCHANGED <<sock, interrupted, exit, iter_angle, iter_active, last_cmd,
                   delay_s, call>>
    /\ UNCHANGED detVars

\* main.py:220  scanner.tick(servo)
Tick ==
    /\ pc = "tick"
    /\ scanner_tick
    /\ pc' = "sleep"
    /\ cur' = NoMsg
    /\ UNCHANGED <<sock, interrupted, exit, iter_angle, iter_active, last_cmd, delay_s,
                   call>>
    /\ UNCHANGED detVars

\* main.py:221  time.sleep_ms(50); the next iteration begins
Sleep ==
    /\ pc = "sleep"
    /\ pc' = "check_msg"
    /\ \E lag \in 0..MaxLag :
          since_tick' = Elapse(LOOP_SLEEP_MS + lag * LOOP_SLEEP_MS)
    /\ iter_angle' = angle
    /\ iter_active' = active
    /\ UNCHANGED <<angle, duty, active, direction, sock, cur, interrupted,
                   exit, last_cmd, delay_s, call>>
    /\ UNCHANGED detVars

ReconnectDelayAsRetry == RETRY_DELAY_S

\* main.py:231  time.sleep(3)
ReconnectDelay == RECONNECT_DELAY_S

\* main.py:228-231  except Exception: time.sleep(3), then the outer loop
ReconnectSleep ==
    /\ pc = "reconnect_sleep"
    /\ pc' = "connect"
    /\ delay_s' = ReconnectDelay
    /\ since_tick' = Elapse(ReconnectDelay * 1000)
    /\ cur' = NoMsg
    /\ UNCHANGED <<angle, duty, active, direction, sock, interrupted, exit,
                   iter_angle, iter_active, last_cmd, call>>
    /\ UNCHANGED detVars

(***************************************************************************)
(* run(): KeyboardInterrupt.  Only the try of main.py:217 has a handler    *)
(* for it; except Exception (main.py:210, :228) does not catch it, and a   *)
(* sleep inside an except clause is outside every try.                     *)
(***************************************************************************)
\* raised inside the message loop: caught at main.py:222
InterruptLoop ==
    /\ pc \in LoopPcs
    /\ ~interrupted
    /\ interrupted' = TRUE
    /\ pc' = "release"
    /\ UNCHANGED <<angle, duty, active, direction, since_tick, sock, cur,
                   exit, iter_angle, iter_active, last_cmd, delay_s, call>>
    /\ UNCHANGED detVars

\* raised during connect/subscribe or during one of the two delays
InterruptOutside ==
    /\ pc \in {"connect", "retry_sleep", "reconnect_sleep"}
    /\ ~interrupted
    /\ interrupted' = TRUE
    /\ pc' = "done"
    /\ exit' = "KeyboardInterrupt"
    /\ UNCHANGED <<angle, duty, active, direction, since_tick, sock, cur,
                   iter_angle, iter_active, last_cmd, delay_s, call>>
    /\ UNCHANGED detVars

\* main.py:224  servo.stop()
Release ==
    /\ pc = "release"
    /\ servo_stop
    /\ pc' = "disconnect"
    /\ UNCHANGED <<active, direction, since_tick, sock, cur, interrupted,
                   exit, iter_angle, iter_active, last_cmd, delay_s, call>>
    /\ UNCHANGED detVars

\* main.py:225-227  client.disconnect() succeeds; return
DisconnectOk ==
    /\ pc = "disconnect"
    /\ sock' = "closed"
    /\ pc' = "done"
    /\ exit' = "return"
    /\ UNCHANGED <<angle, duty, active, direction, since_tick, cur,
                   interrupted, iter_angle, iter_active, last_cmd, delay_s, call>>
    /\ UNCHANGED detVars

\* client.disconnect() raises OSError inside the except clause: it leaves run()
DisconnectFail ==
    /\ pc = "disconnect"
    /\ pc' = "done"
    /\ exit' = "OSError"
    /\ UNCHANGED <<angle, duty, active, direction, since_tick, sock, cur,
                   interrupted, iter_angle, iter_active, last_cmd, delay_s, call>>
    /\ UNCHANGED detVars

Next ==
    \/ ConnectOk
    \/ ConnectFail
    \/ RetrySleep
    \/ CheckMsgNone
    \/ CheckMsgError
    \/ OnBadJson
    \/ OnNonObject
    \/ OnMoveCommand
    \/ MoveApply
    \/ MoveTypeError
    \/ OnCentered
    \/ OnNoFace
    \/ OnUnknown
    \/ Tick
    \/ Sleep
    \/ ReconnectSleep
    \/ InterruptLoop
    \/ InterruptOutside
    \/ Release
    \/ DisconnectOk
    \/ DisconnectFail

(***************************************************************************)
(* ServoSpec: the methods of the two objects, called in any order          *)
(***************************************************************************)
SetAngleArgs == (SERVO_MIN_ANGLE - MaxOvershoot)..(SERVO_MAX_ANGLE + MaxOvershoot)

ApiSetAngle ==
    /\ \E a \in SetAngleArgs : set_angle(a) /\ call' = <<"set_angle", a>>
    /\ UNCHANGED <<pc, active, direction, since_tick, sock, cur, interrupted,
                   exit, iter_angle, iter_active, last_cmd, delay_s>>
    /\ UNCHANGED detVars

ApiMoveProportional ==
    /\ \E d \in {-1, 1}, k \in 0..MaxOffset :
          move_proportional(d, k) /\ call' = <<"move_proportional", d * k>>
    /\ UNCHANGED <<pc, active, direction, since_tick, sock, cur, interrupted,
                   exit, iter_angle, iter_active, last_cmd, delay_s>>
    /\ UNCHANGED detVars

ApiCenter ==
    /\ center
    /\ call' = <<"center", 0>>
    /\ UNCHANGED <<pc, active, direction, since_tick, sock, cur, interrupted,
                   exit, iter_angle, iter_active, last_cmd, delay_s>>
    /\ UNCHANGED detVars

ApiTick ==
    /\ call' = <<"tick", IF TickDue THEN 1 ELSE 0>>
    /\ scanner_tick
    /\ UNCHANGED <<pc, sock, cur, interrupted, exit, iter_angle, iter_active, last_cmd,
                   delay_s>>
    /\ UNCHANGED detVars

ApiStart ==
    /\ scanner_start
    /\ call' = <<"start", 0>>
    /\ UNCHANGED <<pc, angle, duty, direction, sock, cur, interrupted, exit,
                   iter_angle, iter_active, last_cmd, delay_s>>
    /\ UNCHANGED detVars

ApiStop ==
    /\ scanner_stop
    /\ call' = <<"stop", 0>>
    /\ UNCHANGED <<pc, angle, duty, direction, since_tick, sock, cur,
                   interrupted, exit, iter_angle, iter_active, last_cmd, delay_s>>
    /\ UNCHANGED detVars

\* LOOP_SLEEP_MS more milliseconds pass between two calls
ApiElapse ==
    /\ since_tick' = Elapse(LOOP_SLEEP_MS)
    /\ UNCHANGED <<pc, angle, duty, active, direction, sock, cur, interrupted,
                   exit, iter_angle, iter_active, last_cmd, delay_s, call>>
    /\ UNCHANGED detVars

ServoNext ==
    \/ ApiSetAngle
    \/ ApiMoveProportional
    \/ ApiCenter
    \/ ApiTick
    \/ ApiStart
    \/ ApiStop
    \/ ApiElapse

(***************************************************************************)
(* StepSpec: move_proportional alone, its offset on the finer grid         *)
(***************************************************************************)
ApiMoveFine ==
    /\ \E d \in {-1, 1}, k \in 0..MaxFine :
          move_fine(d, k) /\ call' = <<"move_fine", d, k, angle>>
    /\ UNCHANGED <<pc, active, direction, since_tick, sock, cur, interrupted,
                   exit, iter_angle, iter_active, last_cmd, delay_s>>
    /\ UNCHANGED detVars

StepNext == ApiMoveFine

(***************************************************************************)
(* MovementDetector, pc_vision/movement_detector.py                        *)
(*                                                                         *)
(* pc_vision/config.py is not among the sources: the three values it       *)
(* supplies are taken from the specification's scenario (dead zone 0.1,    *)
(* hysteresis 0.05) and, for the publish interval, chosen as a number of   *)
(* clock units.  Ratios are in units of 1/RatioScale.                      *)
(***************************************************************************)
RatioScale == 100
DEAD_ZONE_RATIO == 10
HYSTERESIS_RATIO == 5
MIN_PUBLISH_INTERVAL == 3

\* bounds of the detector's inputs
MaxWidth == 20
BoxMargin == 2
MinBox == 2
MaxTime == 7
MaxDt == 3

FrameWidths == {MaxWidth}
Confidences == {870}
NoBox == << >>

\* face_box: x1 and x2 (y1, y2 are not read); boxes may reach past the frame
Boxes(w) ==
    {<<x1, x1 + MinBox>> : x1 \in (0 - BoxMargin)..(w + BoxMargin - MinBox)}

\* frame_result and frame_width.  A missing "state" reads as "searching".
Observations ==
    {[state |-> s, box |-> b, conf |-> c, width |-> w] :
        s \in {"searching", "tracking"}, b \in {NoBox}, c \in Confidences,
        w \in FrameWidths}
    \cup UNION {
        {[state |-> s, box |-> b, conf |-> c, width |-> w] :
            s \in {"searching", "tracking"}, b \in Boxes(w), c \in Confidences}
        : w \in FrameWidths}

\* movement_detector.py:69
IsNoFace(o) == o.state = "searching" \/ o.box = NoBox

\* movement_detector.py:73-78: offset = (face_cx - frame_cx) / frame_width
\*   = OffsetNum(o) / OffsetDen(o), both integers
OffsetNum(o) == o.box[1] + o.box[2] - o.width
OffsetDen(o) == 2 * o.width

ThresholdAlwaysWide(prev) == DEAD_ZONE_RATIO + HYSTERESIS_RATIO

\* the hysteresis added on the way into the dead zone instead of out of it
ThresholdSwapped(prev) ==
    IF prev = "CENTERED"
    THEN DEAD_ZONE_RATIO
    ELSE DEAD_ZONE_RATIO + HYSTERESIS_RATIO

\* movement_detector.py:84-87
Threshold(prev) ==
    IF prev = "CENTERED"
    THEN DEAD_ZONE_RATIO + HYSTERESIS_RATIO
    ELSE DEAD_ZONE_RATIO

\* movement_detector.py:89  abs(offset) <= threshold
WithinThreshold(o, thr) == Abs(OffsetNum(o)) * RatioScale <= thr * OffsetDen(o)

\* movement_detector.py:69-94
Classify(o, prev) ==
    IF IsNoFace(o) THEN "NO_FACE"
    ELSE IF WithinThreshold(o, Threshold(prev)) THEN "CENTERED"
    ELSE IF OffsetNum(o) < 0 THEN "MOVE_LEFT"
    ELSE "MOVE_RIGHT"

\* movement_detector.py:97
state_changed(m, prev) == m # prev

interval_elapsed_strict(t, last) == t - last > MIN_PUBLISH_INTERVAL

\* movement_detector.py:98
interval_elapsed(t, last) == t - last >= MIN_PUBLISH_INTERVAL

GateAlwaysOpen(m, prev, t, last) == TRUE

\* a gate that limits the rate and nothing else
PublishesOnIntervalOnly(m, prev, t, last) == interval_elapsed(t, last)

\* movement_detector.py:100: the call returns an event
Publishes(m, prev, t, last) == state_changed(m, prev) \/ interval_elapsed(t, last)

\* round(x, 4) of x = num / den >= 0, in units of 1/10000, ties to even
RoundHalfEven(num, den) ==
    LET q == (10000 * num) \div den
        r == (10000 * num) % den
    IN  IF 2 * r > den \/ (2 * r = den /\ q % 2 = 1) THEN q + 1 ELSE q

\* movement_detector.py:109  round(float(offset), 4)
RoundedOffset(o) ==
    IF IsNoFace(o) THEN 0
    ELSE IF OffsetNum(o) < 0
         THEN 0 - RoundHalfEven(0 - OffsetNum(o), OffsetDen(o))
         ELSE RoundHalfEven(OffsetNum(o), OffsetDen(o))

\* movement_detector.py:106-111
Event(o, m, t) ==
    [status |-> m,
     confidence |-> IF IsNoFace(o) THEN 0 ELSE o.conf,
     offset |-> RoundedOffset(o),
     timestamp |-> t]

\* history: a tracking observation with dead zone < |offset| <= dead zone +
\* hysteresis, and the sign of its offset
InBand(o) ==
    /\ ~IsNoFace(o)
    /\ Abs(OffsetNum(o)) * RatioScale > DEAD_ZONE_RATIO * OffsetDen(o)
    /\ Abs(OffsetNum(o)) * RatioScale
          <= (DEAD_ZONE_RATIO + HYSTERESIS_RATIO) * OffsetDen(o)

SignOf(o) == IF OffsetNum(o) < 0 THEN -1 ELSE 1

NoBand == [sign |-> 0, start |-> "None", len |-> 0]

BandAfter(o) ==
    IF ~InBand(o) THEN NoBand
    ELSE IF band.sign = SignOf(o) THEN [band EXCEPT !.len = 2]
    ELSE [sign |-> SignOf(o), start |-> prev_state, len |-> 1]

\* history: compute with "_prev_state = movement" moved in front of the
\* flood gate, the gate comparing with the status last returned
AltAfter(o, t) ==
    LET m == Classify(o, alt.base)
        emits == Publishes(m, alt.last, t, alt.t)
    IN  [base |-> m,
         last |-> IF emits THEN m ELSE alt.last,
         t |-> IF emits THEN t ELSE alt.t,
         out |-> IF emits THEN {m} ELSE {}]

\* MovementDetector.compute; dt is the time since the previous call
compute(o, dt) ==
    LET t == now + dt
        m == Classify(o, prev_state)
    IN  /\ now' = t
        /\ movement' = m
        /\ obs' = o
        /\ pre' = <<prev_state, last_publish_time>>
        /\ prior' = [t |-> now, m |-> movement, emitted |-> out # {}]
        /\ band' = BandAfter(o)
        /\ alt' = AltAfter(o, t)
        /\ IF Publishes(m, prev_state, t, last_publish_time)
           THEN /\ prev_state' = m
                /\ last_publish_time' = t
                /\ out' = {Event(o, m, t)}
           ELSE /\ out' = {}
                /\ UNCHANGED <<prev_state, last_publish_time>>

Compute ==
    /\ \E o \in Observations, dt \in 0..MaxDt :
          now + dt <= MaxTime /\ compute(o, dt)
    /\ UNCHANGED espVars

DetectorNext == Compute

\* MovementDetector.__init__.  The first compute is at now + dt; what the clock
\* reads then does not matter, _prev_state being None.
InitDet ==
    /\ now = 0
    /\ prev_state = "None"
    /\ last_publish_time = 0
    /\ out = {}
    /\ movement = "None"
    /\ obs = [state |-> "searching", box |-> NoBox, conf |-> 0, width |-> MaxWidth]
    /\ pre = <<"None", 0>>
    /\ prior = [t |-> 0, m |-> "None", emitted |-> FALSE]
    /\ band = NoBand
    /\ alt = [base |-> "None", last |-> "None", t |-> 0, out |-> {}]

Init == InitEsp /\ InitDet

Spec == Init /\ [][Next]_vars

\* The statements of run() that need nothing from outside complete: a
\* sleep returns, the tick and the move return, servo.stop() returns.
LiveSpec ==
    /\ Spec
    /\ WF_vars(RetrySleep)
    /\ WF_vars(ReconnectSleep)
    /\ WF_vars(Sleep)
    /\ WF_vars(Tick)
    /\ WF_vars(MoveApply \/ MoveTypeError)
    /\ WF_vars(Release)

\* main.py:219  client.check_msg() does not block: it returns, having called
\* on_message or not, or raises
CheckMsg ==
    \/ CheckMsgNone
    \/ CheckMsgError
    \/ OnBadJson
    \/ OnNonObject
    \/ OnMoveCommand
    \/ OnCentered
    \/ OnNoFace
    \/ OnUnknown

\* LiveSpec with every statement of the message loop completing
LoopLiveSpec == LiveSpec /\ WF_vars(CheckMsg)

ServoSpec == Init /\ [][ServoNext]_vars

StepSpec == Init /\ [][StepNext]_vars

DetectorSpec == Init /\ [][DetectorNext]_vars


(***************************************************************************)
(* Properties                                                              *)
(***************************************************************************)

\* C1.  The stored servo angle is within [SERVO_MIN_ANGLE, SERVO_MAX_ANGLE]
\* in every state reached from the initial center() by set_angle (any
\* argument), move_proportional, center and Scanner.tick in any order.
\* Checked under ServoSpec.
C1_AngleInRange == angle \in SERVO_MIN_ANGLE..SERVO_MAX_ANGLE

\* set_angle was called with an argument above the range and stored the limit
C1_Witness ==
    /\ call[1] = "set_angle"
    /\ call[2] > SERVO_MAX_ANGLE
    /\ angle = SERVO_MAX_ANGLE

\* C2.  The scanner is inactive in every state where the most recently
\* handled command message was MOVE_LEFT, MOVE_RIGHT or CENTERED rather than
\* NO_FACE, and the scan tick of the loop leaves the angle alone in such a
\* state.
C2_NoScanAfterCommand ==
    /\ [](last_cmd \in {"MOVE_LEFT", "MOVE_RIGHT", "CENTERED"} => ~active)
    /\ [][(pc = "tick" /\ pc' = "sleep"
            /\ last_cmd \in {"MOVE_LEFT", "MOVE_RIGHT", "CENTERED"})
          => angle' = angle]_vars

\* the tick has run with its delay elapsed, after a CENTERED that ended a scan
\* which had already turned round at the upper limit
C2_Witness ==
    /\ pc = "sleep"
    /\ last_cmd = "CENTERED"
    /\ iter_active
    /\ since_tick >= SCAN_DELAY_MS
    /\ direction = -1

\* the step move_proportional is to take for an offset of k / OffsetScale
C3_Step(k) ==
    IF 10 * k >= 4 * OffsetScale
    THEN SERVO_STEP_MAX
    ELSE SERVO_STEP_MIN
           + ((SERVO_STEP_MAX - SERVO_STEP_MIN) * 10 * k) \div (4 * OffsetScale)

C3_Target ==
    LET k == Abs(OffsetOf(cur).v)
        t == IF StatusOf(cur) = "MOVE_LEFT"
             THEN iter_angle - C3_Step(k)
             ELSE iter_angle + C3_Step(k)
    IN  IF t < SERVO_MIN_ANGLE THEN SERVO_MIN_ANGLE
        ELSE IF t > SERVO_MAX_ANGLE THEN SERVO_MAX_ANGLE
        ELSE t

C3_IsMove ==
    /\ cur.json = "object"
    /\ StatusOf(cur) \in {"MOVE_LEFT", "MOVE_RIGHT"}
    /\ OffsetOf(cur).t = "num"

\* C3.  In one iteration of the message loop the message is handled before
\* the scan tick runs.  With MOVE_LEFT or MOVE_RIGHT the scanner is inactive
\* before move_proportional has changed the angle (at "move" the angle is
\* still the one the iteration began with), and the tick of that iteration
\* changes nothing: the iteration changes the angle by the proportional step
\* alone.
C3_StopBeforeMove ==
    /\ [](pc = "move" => ~active /\ angle = iter_angle)
    /\ [](pc = "tick" /\ C3_IsMove => ~active /\ angle = C3_Target)
    /\ [][pc' = "tick" => pc \in {"check_msg", "move", "tick"}]_vars
    /\ [][(pc = "tick" /\ pc' = "sleep" /\ C3_IsMove)
          => (angle' = C3_Target /\ ~active'
              /\ direction' = direction /\ since_tick' = since_tick)]_vars

\* a scan was running and its tick was due when MOVE_RIGHT arrived; the move
\* has been applied and the tick is next
C3_Witness ==
    /\ pc = "tick"
    /\ C3_IsMove
    /\ StatusOf(cur) = "MOVE_RIGHT"
    /\ iter_active
    /\ since_tick >= SCAN_DELAY_MS
    /\ angle > iter_angle

\* a payload that fails parsing or validation: no JSON, JSON that is no
\* object, or a MOVE_LEFT / MOVE_RIGHT whose offset is null or no number
C4_Malformed(m) ==
    \/ m.json \in {"invalid", "array"}
    \/ /\ m.json = "object"
       /\ StatusOf(m) \in {"MOVE_LEFT", "MOVE_RIGHT"}
       /\ OffsetOf(m).t # "num"

\* C4.  Handling a payload that fails parsing or validation changes nothing:
\* the scanner's active flag, direction and last tick time and the servo angle
\* are as before, and run() stays in the message loop (CONNECTED).
C4_MalformedDiscarded ==
    [][(pc \in {"check_msg", "move"} /\ C4_Malformed(cur') /\ ~interrupted')
       => (/\ active' = active
           /\ direction' = direction
           /\ since_tick' = since_tick
           /\ angle' = angle
           /\ pc' \in LoopPcs)]_vars

\* C5.  Whenever run() has ended after a KeyboardInterrupt, whatever it was
\* doing when the signal came, the actuator has been released (duty 0) and
\* the client's connection is not left open.
C5_ShutdownReleases ==
    (pc = "done" /\ interrupted) => (duty = 0 /\ sock # "open")

\* C6.  After a KeyboardInterrupt caught in the message loop the scan is
\* stopped first, then the actuator released, then the transport
\* disconnected: when the disconnect is about to run, and when run() has
\* ended (the disconnect having failed or not), the scanner is inactive and
\* the duty is 0, and a disconnect that succeeded has closed the socket.
C6_ShutdownOrder ==
    /\ pc = "disconnect" => (~active /\ duty = 0)
    /\ (pc = "done" /\ exit \in {"return", "OSError"}) => (~active /\ duty = 0)
    /\ (pc = "done" /\ exit = "return") => sock = "closed"

\* C10.  A failure of connect() or subscribe() is not fatal: the attempt ends
\* either in the message loop or in the 5 s delay, the delay ends in another
\* attempt (and, its sleep returning, always does), nothing counts the
\* attempts, and run() ends only when a KeyboardInterrupt was raised.
C10_ConnectFailureNotFatal ==
    /\ [][(pc = "connect" /\ pc' # pc /\ ~interrupted')
          => (\/ pc' = "check_msg" /\ sock' = "open"
              \/ pc' = "retry_sleep")]_vars
    /\ [][(pc = "retry_sleep" /\ pc' # pc /\ ~interrupted')
          => (pc' = "connect" /\ delay_s' = RETRY_DELAY_S)]_vars
    /\ [][(pc' = "done" /\ pc # "done") => interrupted']_vars
    /\ [](pc = "done" => interrupted)
    /\ (pc = "retry_sleep") ~> (pc = "connect" \/ interrupted)

\* an attempt has failed, the 5 s delay has passed and the next attempt is
\* about to be made
C10_Witness ==
    /\ pc = "connect"
    /\ delay_s = RETRY_DELAY_S
    /\ ~interrupted

\* the offset of the last observation as compute has it, numerator over
\* twice the frame width
C7_Num == obs.box[1] + obs.box[2] - obs.width

C7_Limit ==
    IF pre[1] = "CENTERED"
    THEN DEAD_ZONE_RATIO + HYSTERESIS_RATIO
    ELSE DEAD_ZONE_RATIO

\* C7.  For a tracking observation with a bounding box the movement compute
\* classifies is decided by the status it last emitted: CENTERED exactly when
\* |offset| <= dead_zone + hysteresis if that status is CENTERED, exactly when
\* |offset| <= dead_zone if it is anything else (None, MOVE_LEFT, MOVE_RIGHT,
\* NO_FACE); otherwise MOVE_LEFT for offset < 0 and MOVE_RIGHT for offset > 0.
C7_ThresholdFromLastEmitted ==
    (movement # "None" /\ obs.state # "searching" /\ obs.box # NoBox) =>
        IF Abs(C7_Num) * RatioScale <= C7_Limit * 2 * obs.width
        THEN movement = "CENTERED"
        ELSE /\ C7_Num # 0
             /\ movement = (IF C7_Num < 0 THEN "MOVE_LEFT" ELSE "MOVE_RIGHT")

\* the last emitted status was CENTERED and the offset is exactly
\* dead_zone + hysteresis: still CENTERED
C7_Witness ==
    /\ movement = "CENTERED"
    /\ pre[1] = "CENTERED"
    /\ obs.state = "tracking"
    /\ obs.box # NoBox
    /\ Abs(C7_Num) * RatioScale
         = (DEAD_ZONE_RATIO + HYSTERESIS_RATIO) * 2 * obs.width

\* C8.  compute returns an event exactly when the movement differs from the
\* last emitted status or at least MIN_PUBLISH_INTERVAL has passed since the
\* last emission; when it returns nothing _prev_state and _last_publish_time
\* are as before the call, and when it returns an event they are the new
\* movement and the time of the call, which the event carries.
C8_FloodGate ==
    movement # "None" =>
        LET changed == movement # pre[1]
            elapsed == now - pre[2] >= MIN_PUBLISH_INTERVAL
        IN  /\ (out # {}) <=> (changed \/ elapsed)
            /\ out = {} =>
                  (prev_state = pre[1] /\ last_publish_time = pre[2])
            /\ out # {} =>
                  /\ prev_state = movement
                  /\ last_publish_time = now
                  /\ \A ev \in out : ev.status = movement /\ ev.timestamp = now

\* a call that was suppressed: same movement as last emitted, made later but
\* within the interval
C8_Witness ==
    /\ out = {}
    /\ movement = "MOVE_LEFT"
    /\ pre[1] = "MOVE_LEFT"
    /\ now > pre[2]
    /\ now - pre[2] < MIN_PUBLISH_INTERVAL

\* the last two compute calls classified the same movement
C9_SameRun == movement # "None" /\ prior.m = movement

\* C9 as stated.  Two consecutive compute calls that yield the same movement
\* less than MIN_PUBLISH_INTERVAL apart produce exactly one emitted event.
C9_ExactlyOneEvent ==
    (C9_SameRun /\ now - prior.t < MIN_PUBLISH_INTERVAL)
        => (prior.emitted <=> out = {})

\* C9, amended.  Of two consecutive compute calls that yield the same
\* movement less than MIN_PUBLISH_INTERVAL apart, at most one emits, and the
\* second is suppressed when the first emitted; a call of the run made once
\* MIN_PUBLISH_INTERVAL has passed since the last emission emits although the
\* movement is unchanged; and an event emitted with the status of the
\* previous one comes at least MIN_PUBLISH_INTERVAL after it.
C9_FloodSuppression ==
    C9_SameRun =>
        /\ now - prior.t < MIN_PUBLISH_INTERVAL => ~(prior.emitted /\ out # {})
        /\ (prior.emitted /\ now - prior.t < MIN_PUBLISH_INTERVAL) => out = {}
        /\ prior.emitted => (pre[1] = movement /\ pre[2] = prior.t)
        /\ now - pre[2] >= MIN_PUBLISH_INTERVAL => out # {}
        /\ out # {} => now - pre[2] >= MIN_PUBLISH_INTERVAL

\* the third call of a run: the first emitted, the second was suppressed, and
\* this one, exactly MIN_PUBLISH_INTERVAL after the first, emits again
C9_Witness ==
    /\ C9_SameRun
    /\ ~prior.emitted
    /\ pre[1] = movement
    /\ out # {}
    /\ now - pre[2] = MIN_PUBLISH_INTERVAL
    /\ now - prior.t < MIN_PUBLISH_INTERVAL
    /\ prior.t > pre[2]

\* C11.  An error raised by check_msg() while the loop polls ends the loop
\* and leads to the 3 s delay, which ends (and, its sleep returning, always
\* does) in a connect attempt made after 3 s and not after the 5 s of the
\* first-connect retry; when that attempt succeeds the client is subscribed
\* on an open socket, the servo and the scanner are as the error left them,
\* the loop polls again and its tick is made.
C11_ReconnectAfterError ==
    /\ [][(pc \in LoopPcs /\ pc' \notin LoopPcs /\ ~interrupted')
          => (pc' = "reconnect_sleep"
              /\ UNCHANGED <<angle, direction, since_tick, sock>>)]_vars
    /\ [][(pc = "reconnect_sleep" /\ pc' # pc /\ ~interrupted')
          => (/\ pc' = "connect"
              /\ delay_s' = RECONNECT_DELAY_S
              /\ delay_s' # RETRY_DELAY_S
              /\ UNCHANGED <<angle, active, direction>>)]_vars
    /\ [][(pc = "connect" /\ delay_s = RECONNECT_DELAY_S /\ pc' = "check_msg")
          => (/\ sock' = "open"
              /\ cur' = NoMsg
              /\ UNCHANGED <<angle, active, direction>>)]_vars
    /\ (pc = "reconnect_sleep") ~> (pc = "connect" \/ interrupted)
    /\ (pc = "tick") ~> (pc = "sleep" \/ pc = "reconnect_sleep" \/ interrupted)

\* check_msg() has raised while the scanner was sweeping, the 3 s delay has
\* passed and the reconnect attempt is about to be made
C11_Witness ==
    /\ pc = "connect"
    /\ delay_s = RECONNECT_DELAY_S
    /\ sock = "open"
    /\ active
    /\ angle # SERVO_CENTER
    /\ ~interrupted

\* the statuses on_message acts on, main.py:165, :171, :177, :182
C12_Known == {"MOVE_LEFT", "MOVE_RIGHT", "CENTERED", "NO_FACE"}

\* C12.  A JSON object whose status is none of the four known ones, the
\* missing status included, changes nothing: the angle, the scanner's active
\* flag, direction and tick time stay as they were and the loop goes on to
\* the tick of the same iteration.
C12_UnknownIgnored ==
    [][(/\ pc = "check_msg"
        /\ cur'.json = "object"
        /\ Get(cur'.obj, "status", "") \notin C12_Known)
       => (/\ pc' = "tick"
           /\ sock' = sock
           /\ UNCHANGED <<angle, duty, active, direction, since_tick>>)]_vars

\* an object without a status has been handled while the scanner was
\* sweeping and a tick was due
C12_Witness ==
    /\ pc = "tick"
    /\ cur.json = "object"
    /\ "status" \notin DOMAIN cur.obj
    /\ active
    /\ since_tick >= SCAN_DELAY_MS

\* the last call of move_proportional: direction, offset_abs in units of
\* 1/FineScale, the angle before it and how far the servo has turned
C13_Dir == call[2]
C13_Offset == call[3]
C13_Before == call[4]
C13_Moved == Abs(angle - C13_Before)

\* the calls whose target lies in the mechanical range, so that the turn is
\* the step
C13_Unclamped ==
    /\ C13_Before - SERVO_STEP_MAX >= SERVO_MIN_ANGLE
    /\ C13_Before + SERVO_STEP_MAX <= SERVO_MAX_ANGLE

\* C13.  The step of move_proportional is at least SERVO_STEP_MIN, never
\* smaller than the step of a smaller offset, and SERVO_STEP_MAX from an
\* offset of 0.4 on; the servo turns by it in the direction given, and a
\* call with direction -1 and offset 0.5 leaves the angle 8 degrees lower,
\* or at SERVO_MIN_ANGLE when that would be below it.
C13_StepLaw ==
    call[1] = "move_fine" =>
        /\ C13_Moved <= SERVO_STEP_MAX
        /\ C13_Dir * (angle - C13_Before) >= 0
        /\ C13_Unclamped =>
              /\ C13_Moved >= SERVO_STEP_MIN
              /\ (10 * C13_Offset >= 4 * FineScale) => C13_Moved = SERVO_STEP_MAX
              /\ \A j \in 0..C13_Offset :
                    SERVO_STEP_MIN + ((SERVO_STEP_MAX - SERVO_STEP_MIN)
                        * Min(10 * j, 4 * FineScale)) \div (4 * FineScale)
                      <= C13_Moved
        /\ (C13_Dir = -1 /\ 2 * C13_Offset = FineScale) =>
              angle = Max(SERVO_MIN_ANGLE, C13_Before - 8)

\* move_proportional(-1, 0.5) called less than 8 degrees from the lower
\* limit: the servo is at the limit
C13_Witness ==
    /\ call[1] = "move_fine"
    /\ C13_Dir = -1
    /\ 2 * C13_Offset = FineScale
    /\ C13_Before > SERVO_MIN_ANGLE
    /\ C13_Before < SERVO_MIN_ANGLE + SERVO_STEP_MAX
    /\ angle = SERVO_MIN_ANGLE

\* a step of Scanner.tick that passes both guards: the scanner is active
\* and SCAN_DELAY_MS have passed
C14_EffectiveTick ==
    /\ active
    /\ since_tick >= SCAN_DELAY_MS
    /\ call' = <<"tick", 1>>
    /\ since_tick' = 0

\* C14.  An effective tick sets the direction to -1 exactly when the angle
\* is at or above SERVO_MAX_ANGLE - SCAN_STEP, to +1 exactly when it is not
\* and the angle is at or below SERVO_MIN_ANGLE + SCAN_STEP, and leaves it
\* otherwise; the target angle + direction * SCAN_STEP is then within the
\* mechanical range, so set_angle stores it unclamped.
C14_ScanReversal ==
    [][C14_EffectiveTick =>
        /\ (angle >= SERVO_MAX_ANGLE - SCAN_STEP) => direction' = -1
        /\ (angle < SERVO_MAX_ANGLE - SCAN_STEP
              /\ angle <= SERVO_MIN_ANGLE + SCAN_STEP) => direction' = 1
        /\ (angle < SERVO_MAX_ANGLE - SCAN_STEP
              /\ angle > SERVO_MIN_ANGLE + SCAN_STEP) => direction' = direction
        /\ angle + direction' * SCAN_STEP >= SERVO_MIN_ANGLE
        /\ angle + direction' * SCAN_STEP <= SERVO_MAX_ANGLE
        /\ angle' = angle + direction' * SCAN_STEP]_vars

\* a tick made one degree short of the upper limit, where a step to the right
\* would leave the range: the sweep has turned and the servo is two degrees
\* further left
C14_Witness ==
    /\ call = <<"tick", 1>>
    /\ since_tick = 0
    /\ direction = -1
    /\ angle = SERVO_MAX_ANGLE - 1 - SCAN_STEP

\* C15.  Every event compute returns carries an offset between -0.5 and 0.5
\* (the offset of an event is in units of 1/10000), whatever the lock state,
\* the bounding box and the frame width; a NO_FACE event carries offset 0
\* and confidence 0.
C15_OffsetInRange ==
    \A ev \in out :
        /\ ev.offset >= -5000
        /\ ev.offset <= 5000
        /\ ev.status = "NO_FACE" => (ev.offset = 0 /\ ev.confidence = 0)

\* the step of on_message that handles an object with the given status
C16_Handles(status) ==
    /\ pc = "check_msg"
    /\ cur'.json = "object"
    /\ Get(cur'.obj, "status", "") = status

\* C16.  Handling CENTERED leaves the scanner inactive and the angle (and
\* the duty) as they were; handling NO_FACE leaves the angle, the duty and
\* the scan direction as they were and the scanner active.
C16_FrameOfCommands ==
    /\ [][C16_Handles("CENTERED")
          => (~active' /\ UNCHANGED <<angle, duty>>)]_vars
    /\ [][C16_Handles("NO_FACE")
          => (active' /\ UNCHANGED <<angle, duty, direction>>)]_vars

\* CENTERED has been handled while the scanner was sweeping away from the
\* neutral angle: the sweep is off and the servo is where the sweep left it
C16_Witness ==
    /\ pc = "tick"
    /\ cur.json = "object"
    /\ Get(cur.obj, "status", "") = "CENTERED"
    /\ iter_active
    /\ ~active
    /\ angle = iter_angle
    /\ angle # SERVO_CENTER

\* C17.  Scanner.start records the tick time only when it turns the scanner
\* on: NO_FACE handled while the scanner is active leaves the time since the
\* last tick as it was, so a tick that was due is still due and the tick of
\* the same iteration moves the servo.  Scanner.stop leaves the scanner
\* inactive whatever it was, and a second stop changes nothing.
C17_StartStopIdempotent ==
    /\ [][C16_Handles("NO_FACE")
          => (/\ active'
              /\ active => since_tick' = since_tick
              /\ ~active => since_tick' = 0
              /\ (active /\ since_tick >= SCAN_DELAY_MS)
                    => (active' /\ since_tick' >= SCAN_DELAY_MS))]_vars
    /\ [][(/\ pc = "tick"
           /\ pc' = "sleep"
           /\ cur.json = "object"
           /\ Get(cur.obj, "status", "") = "NO_FACE"
           /\ iter_active
           /\ since_tick >= SCAN_DELAY_MS)
          => (angle' # angle /\ since_tick' = 0)]_vars
    /\ [][(C16_Handles("CENTERED") \/ C16_Handles("MOVE_LEFT")
              \/ C16_Handles("MOVE_RIGHT"))
          => (/\ ~active'
              /\ ~active => UNCHANGED <<active, since_tick, direction>>)]_vars

\* NO_FACE has been handled in an iteration that began with the scanner
\* active, and the tick about to be made is due
C17_Witness ==
    /\ pc = "tick"
    /\ cur.json = "object"
    /\ Get(cur.obj, "status", "") = "NO_FACE"
    /\ iter_active
    /\ active
    /\ since_tick >= SCAN_DELAY_MS
    /\ last_cmd = "NO_FACE"

\* the status every event of the current run inside the band carries
C18_Expected ==
    IF band.start = "CENTERED" THEN "CENTERED"
    ELSE IF band.sign < 0 THEN "MOVE_LEFT"
    ELSE "MOVE_RIGHT"

\* C18.  Over a run of tracking observations whose offsets have one sign
\* and lie above the dead zone and not above dead zone + hysteresis, every
\* call classifies, and every event carries, one status: CENTERED when the
\* status last emitted before the run was CENTERED, else the MOVE of the
\* sign; two calls of the run never differ.
C18_NoToggling ==
    band.sign # 0 =>
        /\ movement = C18_Expected
        /\ \A ev \in out : ev.status = C18_Expected
        /\ prev_state = C18_Expected
        /\ band.len = 2 => (prior.m = movement /\ pre[1] = movement)

\* the second or a later call of a run that began with CENTERED emitted
\* last returns an event, the interval having elapsed: it is CENTERED again
C18_Witness ==
    /\ band.sign # 0
    /\ band.len = 2
    /\ band.start = "CENTERED"
    /\ out # {}

\* C20.  After every call of compute, whether it returned an event or
\* None, _prev_state is the movement that call classified (a suppressed call
\* classified the status emitted last).  So the detector that takes every
\* classified movement as its baseline classifies as this one does and
\* returns an event of the same status in the same calls.
C20_BaselineIsLastMovement ==
    movement # "None" =>
        /\ prev_state = movement
        /\ alt.base = prev_state
        /\ alt.last = prev_state
        /\ alt.out = {ev.status : ev \in out}

\* a call inside the hysteresis band after CENTERED, less than the interval
\* after the last event: it classifies CENTERED and returns None
C20_Witness ==
    /\ out = {}
    /\ alt.out = {}
    /\ band.sign # 0
    /\ movement = "CENTERED"
    /\ prev_state = "CENTERED"
    /\ now > last_publish_time

\* C19.  If from some point on the scanner stays active and run() stays in
\* its message loop (no MOVE_LEFT, MOVE_RIGHT or CENTERED is handled, no
\* error and no interrupt ends the loop), the ticks keep moving the servo
\* and the sweep comes again and again within SCAN_STEP of the upper limit
\* and within SCAN_STEP of the lower limit.
C19_SweepCoversRange ==
    <>[](active /\ pc \in LoopPcs)
        => /\ []<>(angle >= SERVO_MAX_ANGLE - SCAN_STEP)
           /\ []<>(angle <= SERVO_MIN_ANGLE + SCAN_STEP)

\* the sweep, having turned at the upper limit, has come down: the tick of
\* this iteration has moved the servo to within SCAN_STEP of the lower limit
C19_Witness ==
    /\ pc = "sleep"
    /\ active
    /\ iter_active
    /\ last_cmd = "NO_FACE"
    /\ since_tick = 0
    /\ direction = -1
    /\ angle = iter_angle - SCAN_STEP
    /\ angle <= SERVO_MIN_ANGLE + SCAN_STEP

\* where run() is while it has no subscribed client: the connect attempt
\* and the two delays
C21_Disconnected == {"connect", "retry_sleep", "reconnect_sleep"}

\* C21.  While run() is outside its message loop (connect attempt, 5 s
\* delay, 3 s delay) no step handles a message or makes a scan tick: the
\* angle, the duty, the scanner's active flag and direction stay as they
\* are, no command is recorded and the time since the last tick is never set
\* back.  The step that leaves the loop on an error and the step that enters
\* it after a successful connect leave them alone too, so the scanner state
\* at the failure, ACTIVE included, is the state the next loop begins with;
\* when check_msg itself raised, that is the state its iteration began with.
C21_DisconnectedFrame ==
    /\ [][(pc \in C21_Disconnected)
          => (/\ UNCHANGED <<angle, duty, active, direction, last_cmd>>
              /\ since_tick' >= since_tick
              /\ cur' \in {cur, NoMsg})]_vars
    /\ [][(pc \in LoopPcs /\ pc' \in C21_Disconnected)
          => UNCHANGED <<angle, duty, active, direction, since_tick>>]_vars
    /\ [][(pc \in C21_Disconnected /\ pc' \in LoopPcs)
          => (/\ pc' = "check_msg"
              /\ iter_active' = active
              /\ iter_angle' = angle)]_vars
    /\ [](pc = "reconnect_sleep" /\ cur = NoMsg
            => (angle = iter_angle /\ active = iter_active))

\* the loop has ended on an error while the scanner, having turned at the
\* upper limit, was sweeping; the 3 s delay, a failed connect attempt and the
\* 5 s delay have passed, and the scanner is still active and sweeping left
C21_Witness ==
    /\ pc = "connect"
    /\ delay_s = RETRY_DELAY_S
    /\ active
    /\ direction = -1
    /\ angle # SERVO_CENTER
    /\ ~interrupted

=============================================================================
